---- MODULE Spec2Model ----
(***************************************************************************)
(* K1 message protocol layer of the VMC96 vending machine board API        *)
(* (src/vmc96api.c): frame construction, checksum, response validation,    *)
(* controller-address dispatch and the public operations built on them.    *)
(*                                                                         *)
(* Bytes are the integers 0..255.  A message (struct vmc96_message_s) is a *)
(* record of its six fields; since every field is an unsigned char the     *)
(* struct has no padding and its fields lie at the offsets                 *)
(*   id_controller 0, command 1, data 2..251, data_length 252,             *)
(*   raw 253..507, raw_length 508                                          *)
(* so a memcpy that runs past data[] lands in data_length and raw[], and a *)
(* read past raw[] returns raw_length and then the bytes that follow the   *)
(* response in the calloc'ed session.                                      *)
(***************************************************************************)
EXTENDS Integers, Sequences, FiniteSets, TLC

(* ------------------------------ DEFINES ------------------------------- *)
VMC96_MESSAGE_STX == 53
VMC96_MESSAGE_MAX_LEN == 255
VMC96_MESSAGE_DATA_MAX_LEN == 250
VMC96_MOTOR_MAX_CURRENT_READING_MA == 500

VMC96_CONTROLLER_GLOBAL_BROADCAST == 0
VMC96_CONTROLLER_RELAY_BASE_ADDRESS == 38
VMC96_CONTROLLER_RELAY_1 == 38
VMC96_CONTROLLER_RELAY_2 == 39
VMC96_CONTROLLER_MOTOR_ARRAY == 48

VMC96_COMMAND_SIMPLE_PING == 0
VMC96_COMMAND_GLOBAL_RESET == 1
VMC96_COMMAND_KERNEL_VERSION == 2
VMC96_COMMAND_RESET == 5
VMC96_COMMAND_MOTOR_STATUS_REQUEST == 16
VMC96_COMMAND_MOTOR_STOP_ALL == 18
VMC96_COMMAND_MOTOR_RUN == 19
VMC96_COMMAND_MOTOR_OPTO_LINE_STATUS == 21
VMC96_COMMAND_RELAY_FUNCTION == 17

(* Dimensions of the motor array (header vmc96.h: 8 rows of 12 columns,    *)
(* the 96 motors the board is named after).                                *)
VMC96_MOTOR_ARRAY_ROWS_COUNT == 8
VMC96_MOTOR_ARRAY_COLUMNS_COUNT == 12

(* Return codes, by name.                                                  *)
VMC96_SUCCESS == "VMC96_SUCCESS"
VMC96_ERROR_FTDI_WRITE_DATA == "VMC96_ERROR_FTDI_WRITE_DATA"
VMC96_ERROR_FTDI_READ_DATA == "VMC96_ERROR_FTDI_READ_DATA"
VMC96_ERROR_FTDI_PURGE_BUFFERS == "VMC96_ERROR_FTDI_PURGE_BUFFERS"
VMC96_ERROR_RESPONSE_INVALID_CHECKSUM == "VMC96_ERROR_RESPONSE_INVALID_CHECKSUM"
VMC96_ERROR_RESPONSE_MALFORMED == "VMC96_ERROR_RESPONSE_MALFORMED"
VMC96_ERROR_RESPONSE_INVALID_SOURCE == "VMC96_ERROR_RESPONSE_INVALID_SOURCE"
VMC96_ERROR_RESPONSE_INVALID_LENGTH == "VMC96_ERROR_RESPONSE_INVALID_LENGTH"
VMC96_ERROR_INVALID_MOTOR_COORDINATES == "VMC96_ERROR_INVALID_MOTOR_COORDINATES"

(* ---------------------------- arithmetic ------------------------------ *)
Byte == 0 .. 255

(* the largest value of type int, in which the macros compute              *)
INT_MAX == 2147483647

(* unsigned char conversion                                                *)
U8(v) == v % 256

(* the C operator ^ on two byte values                                     *)
RECURSIVE BitXor(_, _)
BitXor(a, b) ==
    IF a = 0 THEN b
    ELSE IF b = 0 THEN a
    ELSE (((a % 2) + (b % 2)) % 2) + 2 * BitXor(a \div 2, b \div 2)

(* the C operator & on two byte values                                     *)
RECURSIVE BitAnd(_, _)
BitAnd(a, b) ==
    IF a = 0 \/ b = 0 THEN 0
    ELSE ((a % 2) * (b % 2)) + 2 * BitAnd(a \div 2, b \div 2)

(* Conversion of an int to `char`: plain char is signed on some builds     *)
(* (x86) and unsigned on others (ARM Linux); sgn tells which.              *)
ToChar(v, sgn) == IF sgn /\ U8(v) >= 128 THEN U8(v) - 256 ELSE U8(v)

(* ------------------------------ HELPERS ------------------------------- *)
VMC96_GET_MOTOR_ID(row, col) == ((row + 1) * 16) + (col + 1)
VMC96_GET_MOTOR_ROW(mid) == (BitAnd(mid, 240) \div 16) - 1
(* the column taken from three bits of the id instead of four              *)
GET_MOTOR_COL_3_bits(mid) == BitAnd(mid, 7) - 1
VMC96_GET_MOTOR_COL(mid) == BitAnd(mid, 15) - 1
(* the reading scaled in 16-bit arithmetic                                 *)
GET_MOTOR_CURRENT_MA_16_bit(val) == ((VMC96_MOTOR_MAX_CURRENT_READING_MA * val) % 65536) \div 255
VMC96_GET_MOTOR_CURRENT_MA(val) == (VMC96_MOTOR_MAX_CURRENT_READING_MA * val) \div 255
VMC96_VALIDATE_MOTOR_COORDINATE(row, col) ==
    (row < VMC96_MOTOR_ARRAY_ROWS_COUNT) /\ (col < VMC96_MOTOR_ARRAY_COLUMNS_COUNT)

(* ------------------------- struct vmc96_message_s --------------------- *)
OFF_DATA == 2
OFF_DATA_LENGTH == 252
OFF_RAW == 253
OFF_RAW_LENGTH == 508

(* a message as calloc leaves it                                           *)
ZeroMessage ==
    [ id_controller |-> 0, command |-> 0,
      data |-> [i \in 0 .. (VMC96_MESSAGE_DATA_MAX_LEN - 1) |-> 0],
      data_length |-> 0,
      raw |-> [i \in 0 .. (VMC96_MESSAGE_MAX_LEN - 1) |-> 0],
      raw_length |-> 0 ]

(* the byte at struct offset off of message m; the bytes after the last    *)
(* member of the session are the zeroed tail of the calloc'ed block        *)
MsgAt(m, off) ==
    IF off = 0 THEN m.id_controller
    ELSE IF off = 1 THEN m.command
    ELSE IF off < OFF_DATA_LENGTH THEN m.data[off - OFF_DATA]
    ELSE IF off = OFF_DATA_LENGTH THEN m.data_length
    ELSE IF off < OFF_RAW_LENGTH THEN m.raw[off - OFF_RAW]
    ELSE IF off = OFF_RAW_LENGTH THEN m.raw_length
    ELSE 0

(* memcpy of n bytes from struct offset src of the message m to m.data.    *)
(* The bytes past data[249] land in data_length and then in raw[].  When   *)
(* the two ranges overlap the result depends on the direction the library  *)
(* copies in: bwd = TRUE copies from the last byte down, so the bytes of   *)
(* the source that the copy has already overwritten are read back          *)
(* modified; copying upwards every byte is read before it is overwritten.  *)
MemcpyToData(m, src, n, bwd) ==
    LET delta == src - OFF_DATA
        Val(k) == IF bwd /\ k + delta <= n - 1
                  THEN MsgAt(m, src + k + delta)
                  ELSE MsgAt(m, src + k)
        inData == IF n < VMC96_MESSAGE_DATA_MAX_LEN THEN n ELSE VMC96_MESSAGE_DATA_MAX_LEN
    IN  [m EXCEPT
           !.data = [i \in 0 .. (inData - 1) |-> Val(i)] @@ @,
           !.data_length = IF n > VMC96_MESSAGE_DATA_MAX_LEN
                           THEN Val(OFF_DATA_LENGTH - OFF_DATA) ELSE @,
           !.raw = [j \in 0 .. (n - (OFF_RAW - OFF_DATA) - 1) |->
                      Val(OFF_RAW - OFF_DATA + j)] @@ @]

(* array dst with dst[dstAt + k] = src[srcAt + k] for k in 0..n-1          *)
PutRange(dst, dstAt, src, srcAt, n) ==
    [i \in dstAt .. (dstAt + n - 1) |-> src[srcAt + (i - dstAt)]] @@ dst

(* --------------------- MESSAGE CONTROL FUNCTIONS ---------------------- *)
RECURSIVE XorRange(_, _, _)
(* buf[lo] ^ ... ^ buf[hi], the low eight bits the accumulator `sum` holds *)
(* after the loop has run over lo..hi (halved, not stepped, to keep the    *)
(* evaluation shallow; ^ is associative)                                   *)
XorRange(buf, lo, hi) ==
    IF lo > hi THEN 0
    ELSE IF lo = hi THEN buf[lo]
    ELSE LET mid == (lo + hi) \div 2
         IN  BitXor(XorRange(buf, lo, mid), XorRange(buf, mid + 1, hi))

(* static char vmc96_calculate_checksum( buf, buflen ): a value of type    *)
(* char, negative on a signed-char build when bit 7 of the XOR is set      *)
vmc96_calculate_checksum(buf, buflen, sgn) == ToChar(XorRange(buf, 0, buflen - 1), sgn)

(* a frame whose length byte counts the payload only                       *)
prepare_raw_message_payload_length(msg, sgn) ==
    LET rl == U8(msg.data_length + 5)
        hdr == [msg.raw EXCEPT ![0] = VMC96_MESSAGE_STX,
                               ![1] = msg.id_controller,
                               ![2] = msg.data_length,
                               ![3] = msg.command]
        body == IF msg.data_length > 0
                THEN PutRange(hdr, 4, msg.data, 0, msg.data_length)
                ELSE hdr
    IN  [msg EXCEPT !.raw_length = rl,
                    !.raw = [body EXCEPT ![rl - 1] =
                               U8(vmc96_calculate_checksum(body, rl - 1, sgn))]]

vmc96_prepare_raw_message(msg, sgn) ==
    LET rl == U8(msg.data_length + 5)
        hdr == [msg.raw EXCEPT ![0] = VMC96_MESSAGE_STX,
                               ![1] = msg.id_controller,
                               ![2] = rl,
                               ![3] = msg.command]
        body == IF msg.data_length > 0
                THEN PutRange(hdr, 4, msg.data, 0, msg.data_length)
                ELSE hdr
    IN  [msg EXCEPT !.raw_length = rl,
                    !.raw = [body EXCEPT ![rl - 1] =
                               U8(vmc96_calculate_checksum(body, rl - 1, sgn))]]

(* case VMC96_CONTROLLER_GLOBAL_BROADCAST of vmc96_parse_raw_response      *)
ParseBroadcast(resp, bwd) ==
    IF resp.raw_length <= 0
    THEN [ret |-> VMC96_ERROR_RESPONSE_INVALID_LENGTH, response |-> resp]
    ELSE [ret |-> VMC96_SUCCESS,
          response |-> MemcpyToData([resp EXCEPT !.data_length = resp.raw_length],
                                    OFF_RAW, resp.raw_length, bwd)]

(* the checks of the addressed case, on the response as the copy left it   *)
AddressedChecks(msg, r, sgn) ==
    IF r.raw[0] # VMC96_MESSAGE_STX THEN VMC96_ERROR_RESPONSE_MALFORMED
    ELSE IF r.raw[1] # msg.id_controller THEN VMC96_ERROR_RESPONSE_INVALID_SOURCE
    ELSE IF r.raw[2] # r.raw_length THEN VMC96_ERROR_RESPONSE_INVALID_LENGTH
    ELSE IF r.raw[r.raw_length - 1]
              # vmc96_calculate_checksum(r.raw, r.raw_length - 1, sgn)
         THEN VMC96_ERROR_RESPONSE_INVALID_CHECKSUM
    ELSE VMC96_SUCCESS

(* the addressed case with the payload length taken as declared - 5        *)
ParseAddressed_length_minus_5(msg, resp, sgn, bwd) ==
    IF resp.raw_length < 5
    THEN [ret |-> VMC96_ERROR_RESPONSE_INVALID_LENGTH, response |-> resp]
    ELSE LET r1 == [resp EXCEPT !.id_controller = resp.raw[1],
                                !.data_length = U8(resp.raw[2] - 5)]
             r2 == MemcpyToData(r1, OFF_RAW + 3, r1.data_length, bwd)
         IN  [ret |-> AddressedChecks(msg, r2, sgn), response |-> r2]

(* case VMC96_CONTROLLER_RELAY_1 / RELAY_2 / MOTOR_ARRAY: the payload is   *)
(* copied out (data_length = raw[2] - 4 as an unsigned char, so 252..255   *)
(* for raw[2] < 4) before any field of the frame is checked                *)
ParseAddressed(msg, resp, sgn, bwd) ==
    IF resp.raw_length < 5
    THEN [ret |-> VMC96_ERROR_RESPONSE_INVALID_LENGTH, response |-> resp]
    ELSE LET r1 == [resp EXCEPT !.id_controller = resp.raw[1],
                                !.data_length = U8(resp.raw[2] - 4)]
             r2 == MemcpyToData(r1, OFF_RAW + 3, r1.data_length, bwd)
         IN  [ret |-> AddressedChecks(msg, r2, sgn), response |-> r2]

(* the controllers the switch of vmc96_parse_raw_response validates        *)
AddressedControllers ==
    {VMC96_CONTROLLER_RELAY_1, VMC96_CONTROLLER_RELAY_2, VMC96_CONTROLLER_MOTOR_ARRAY}

(* the number of bytes vmc96_parse_raw_response copies into response.data  *)
(* (third argument of its memcpy), 0 on the paths that copy nothing        *)
ParseCopyLength(msg, resp) ==
    IF msg.id_controller = VMC96_CONTROLLER_GLOBAL_BROADCAST
    THEN (IF resp.raw_length <= 0 THEN 0 ELSE resp.raw_length)
    ELSE IF msg.id_controller \in AddressedControllers
    THEN (IF resp.raw_length < 5 THEN 0 ELSE U8(resp.raw[2] - 4))
    ELSE 0

vmc96_parse_raw_response(msg, resp, sgn, bwd) ==
    IF msg.id_controller = VMC96_CONTROLLER_GLOBAL_BROADCAST
    THEN ParseBroadcast(resp, bwd)
    ELSE IF msg.id_controller \in AddressedControllers
    THEN ParseAddressed(msg, resp, sgn, bwd)
    ELSE [ret |-> VMC96_SUCCESS, response |-> resp]

(* an exchange that does not look at what ftdi_write_data returned         *)
send_raw_message_unchecked_write(resp, tp) ==
    IF ~tp.purge
    THEN [ret |-> VMC96_ERROR_FTDI_PURGE_BUFFERS, response |-> resp,
          trace |-> <<"purge">>]
    ELSE IF ~tp.read
    THEN [ret |-> VMC96_ERROR_FTDI_READ_DATA, response |-> resp,
          trace |-> <<"purge", "write", "usleep", "read">>]
    ELSE [ret |-> VMC96_SUCCESS,
          response |-> [resp EXCEPT
                          !.raw = PutRange(@, 0, tp.rx, 1, Len(tp.rx)),
                          !.raw_length = Len(tp.rx)],
          trace |-> <<"purge", "write", "usleep", "read">>]

(* One exchange on the transport (libftdi).  tp is what the transport does *)
(* in this exchange: purge, write, read say whether the call succeeds, rx  *)
(* is the sequence of bytes a successful read returns (at most 255).       *)
(* trace lists the transport calls made, in order.                         *)
vmc96_send_raw_message(resp, tp) ==
    IF ~tp.purge
    THEN [ret |-> VMC96_ERROR_FTDI_PURGE_BUFFERS, response |-> resp,
          trace |-> <<"purge">>]
    ELSE IF ~tp.write
    THEN [ret |-> VMC96_ERROR_FTDI_WRITE_DATA, response |-> resp,
          trace |-> <<"purge", "write">>]
    ELSE IF ~tp.read
    THEN [ret |-> VMC96_ERROR_FTDI_READ_DATA, response |-> resp,
          trace |-> <<"purge", "write", "usleep", "read">>]
    ELSE [ret |-> VMC96_SUCCESS,
          response |-> [resp EXCEPT
                          !.raw = PutRange(@, 0, tp.rx, 1, Len(tp.rx)),
                          !.raw_length = Len(tp.rx)],
          trace |-> <<"purge", "write", "usleep", "read">>]

(* the null pointer vmc96_send_message passes as data                      *)
NULL == <<>>

(* cx is the session and the environment of one call: the two messages of  *)
(* the session, what the transport does (tp), the signedness of char       *)
(* (sgn).  The result is the session after the call, the value returned    *)
(* and the transport calls made.                                           *)
vmc96_send_message_ex(cx, id_cntlr, cmd, data, datalen) ==
    LET m1 == [cx.message EXCEPT !.id_controller = id_cntlr, !.command = cmd]
        m2 == IF (data # NULL) /\ (datalen > 0)
              THEN [m1 EXCEPT !.data = PutRange(@, 0, data, 1, datalen),
                              !.data_length = datalen]
              ELSE [m1 EXCEPT !.data = ZeroMessage.data, !.data_length = 0]
        m3 == vmc96_prepare_raw_message(m2, cx.sgn)
        sent == vmc96_send_raw_message(cx.response, cx.tp)
        parsed == vmc96_parse_raw_response(m3, sent.response, cx.sgn, cx.tp.bwd)
    IN  IF sent.ret # VMC96_SUCCESS
        THEN [message |-> m3, response |-> sent.response, ret |-> sent.ret,
              trace |-> sent.trace]
        ELSE [message |-> m3, response |-> parsed.response, ret |-> parsed.ret,
              trace |-> Append(sent.trace, "parse")]

vmc96_send_message(cx, id_cntlr, cmd) == vmc96_send_message_ex(cx, id_cntlr, cmd, NULL, 0)

(* --------------------------- caller's outputs ------------------------- *)
(* The memory the caller passes for results: version is the bytes at       *)
(* char * version, status the VMC96_motor_array_status_t, opto the four    *)
(* bytes of the uint32_t.  A public operation gets them as cx.out0 and     *)
(* returns them as out.                                                    *)
ZeroStatus == [current_ma |-> 0, active_count |-> 0, motors |-> <<>>]

(* buf with the bytes of written stored from its first byte on             *)
WriteBytes(buf, written) ==
    [i \in 1 .. (IF Len(buf) > Len(written) THEN Len(buf) ELSE Len(written)) |->
       IF i <= Len(written) THEN written[i] ELSE buf[i]]

(* lines 185-191 and 229-235: the version string out of the response       *)
DecodeVersion(resp, version) ==
    IF resp.data_length > 0
    THEN WriteBytes(version,
                    [k \in 1 .. resp.data_length |->
                       IF k < resp.data_length THEN MsgAt(resp, OFF_DATA + k) ELSE 0])
    ELSE WriteBytes(version, <<0>>)

(* lines 257-275: the status out of the response, and the value returned   *)
DecodeStatus(resp) ==
    IF resp.data_length >= 2
    THEN IF resp.data[0] # VMC96_COMMAND_MOTOR_STATUS_REQUEST
         THEN [ret |-> VMC96_ERROR_RESPONSE_INVALID_SOURCE, status |-> ZeroStatus]
         ELSE [ret |-> VMC96_SUCCESS,
               status |->
                 [current_ma |-> VMC96_GET_MOTOR_CURRENT_MA(resp.data[1]),
                  active_count |-> resp.data_length - 2,
                  motors |-> [i \in 1 .. (resp.data_length - 2) |->
                                [row |-> VMC96_GET_MOTOR_ROW(MsgAt(resp, OFF_DATA + i + 1)),
                                 col |-> VMC96_GET_MOTOR_COL(MsgAt(resp, OFF_DATA + i + 1))]]]]
    ELSE [ret |-> VMC96_SUCCESS, status |-> ZeroStatus]

(* lines 316-319: the opto line bytes out of the response                  *)
DecodeOpto(resp) ==
    IF resp.data_length = 5
    THEN [k \in 1 .. 4 |-> resp.data[k]]
    ELSE <<0, 0, 0, 0>>

(* the result r of an exchange, with the caller's outputs out              *)
WithOut(r, out) ==
    [message |-> r.message, response |-> r.response, ret |-> r.ret,
     trace |-> r.trace, out |-> out]

(* ------------------------- PUBLIC OPERATIONS -------------------------- *)
vmc96_relay_ping(cx, id) ==
    WithOut(vmc96_send_message(cx, U8(VMC96_CONTROLLER_RELAY_BASE_ADDRESS + id),
                               VMC96_COMMAND_SIMPLE_PING), cx.out0)

vmc96_relay_get_version(cx, id) ==
    LET r == vmc96_send_message(cx, U8(VMC96_CONTROLLER_RELAY_BASE_ADDRESS + id),
                                VMC96_COMMAND_KERNEL_VERSION)
    IN  IF r.ret # VMC96_SUCCESS THEN WithOut(r, cx.out0)
        ELSE WithOut(r, [cx.out0 EXCEPT !.version = DecodeVersion(r.response, @)])

vmc96_relay_reset(cx, id) ==
    WithOut(vmc96_send_message(cx, U8(VMC96_CONTROLLER_RELAY_BASE_ADDRESS + id),
                               VMC96_COMMAND_RESET), cx.out0)

vmc96_relay_control(cx, id, state) ==
    WithOut(vmc96_send_message_ex(cx, U8(VMC96_CONTROLLER_RELAY_BASE_ADDRESS + id),
                                  VMC96_COMMAND_RELAY_FUNCTION,
                                  <<IF state THEN 1 ELSE 0>>, 1), cx.out0)

vmc96_motor_ping(cx) ==
    WithOut(vmc96_send_message(cx, VMC96_CONTROLLER_MOTOR_ARRAY,
                               VMC96_COMMAND_SIMPLE_PING), cx.out0)

vmc96_motor_get_version(cx) ==
    LET r == vmc96_send_message(cx, VMC96_CONTROLLER_MOTOR_ARRAY,
                                VMC96_COMMAND_KERNEL_VERSION)
    IN  IF r.ret # VMC96_SUCCESS THEN WithOut(r, cx.out0)
        ELSE WithOut(r, [cx.out0 EXCEPT !.version = DecodeVersion(r.response, @)])

vmc96_motor_reset(cx) ==
    WithOut(vmc96_send_message(cx, VMC96_CONTROLLER_MOTOR_ARRAY,
                               VMC96_COMMAND_RESET), cx.out0)

vmc96_motor_get_status(cx) ==
    LET r == vmc96_send_message(cx, VMC96_CONTROLLER_MOTOR_ARRAY,
                                VMC96_COMMAND_MOTOR_STATUS_REQUEST)
        d == DecodeStatus(r.response)
    IN  IF r.ret # VMC96_SUCCESS THEN WithOut(r, cx.out0)
        ELSE WithOut([r EXCEPT !.ret = d.ret], [cx.out0 EXCEPT !.status = d.status])

vmc96_motor_stop_all(cx) ==
    WithOut(vmc96_send_message(cx, VMC96_CONTROLLER_MOTOR_ARRAY,
                               VMC96_COMMAND_MOTOR_STOP_ALL), cx.out0)

(* a refusal that comes after the command was stored in the message        *)
InvalidMotorCoordinatesAfterStore(cx) ==
    [message |-> [cx.message EXCEPT !.id_controller = VMC96_CONTROLLER_MOTOR_ARRAY,
                                    !.command = VMC96_COMMAND_MOTOR_RUN],
     response |-> cx.response,
     ret |-> VMC96_ERROR_INVALID_MOTOR_COORDINATES, trace |-> <<>>, out |-> cx.out0]

(* the call returns before it touches the session                          *)
InvalidMotorCoordinates(cx) ==
    [message |-> cx.message, response |-> cx.response,
     ret |-> VMC96_ERROR_INVALID_MOTOR_COORDINATES, trace |-> <<>>, out |-> cx.out0]

vmc96_motor_run(cx, row, col) ==
    LET data == U8(VMC96_GET_MOTOR_ID(row, col))
    IN  IF ~VMC96_VALIDATE_MOTOR_COORDINATE(row, col)
        THEN InvalidMotorCoordinates(cx)
        ELSE WithOut(vmc96_send_message_ex(cx, VMC96_CONTROLLER_MOTOR_ARRAY,
                                           VMC96_COMMAND_MOTOR_RUN, <<data>>, 1), cx.out0)

vmc96_motor_pair_run(cx, row, col1, col2) ==
    LET data == <<U8(VMC96_GET_MOTOR_ID(row, col1)), U8(VMC96_GET_MOTOR_ID(row, col2))>>
    IN  IF ~VMC96_VALIDATE_MOTOR_COORDINATE(row, col1)
           \/ ~VMC96_VALIDATE_MOTOR_COORDINATE(row, col2)
        THEN InvalidMotorCoordinates(cx)
        ELSE WithOut(vmc96_send_message_ex(cx, VMC96_CONTROLLER_MOTOR_ARRAY,
                                           VMC96_COMMAND_MOTOR_RUN, data, 2), cx.out0)

vmc96_motor_opto_line_status(cx) ==
    LET r == vmc96_send_message(cx, VMC96_CONTROLLER_MOTOR_ARRAY,
                                VMC96_COMMAND_MOTOR_OPTO_LINE_STATUS)
    IN  IF r.ret # VMC96_SUCCESS THEN WithOut(r, cx.out0)
        ELSE WithOut(r, [cx.out0 EXCEPT !.opto = DecodeOpto(r.response)])

vmc96_global_reset(cx) ==
    WithOut(vmc96_send_message_ex(cx, VMC96_CONTROLLER_GLOBAL_BROADCAST,
                                  VMC96_COMMAND_GLOBAL_RESET, <<255>>, 1), cx.out0)

(* ------------------------------ bounds -------------------------------- *)
(* longest payload of the short frames the device sends in UnitSpec        *)
MaxUnitPayload == 2
(* longest payload vmc96_send_message_ex is given in UnitSpec, besides the *)
(* full 250 bytes                                                          *)
MaxUnitData == 2

(* --------------------------- the environment -------------------------- *)
(* the checksum the device appends to the bytes s it sends                 *)
XorSeq(s) == XorRange(s, 1, Len(s))

(* A frame as the device puts it on the wire: start byte, source address,  *)
(* declared length, payload (command echo first) and last byte; ck says    *)
(* whether the last byte is the checksum of the others ("ok"), the         *)
(* checksum with bit 0 flipped ("bad") or the start byte value ("stx").    *)
DeviceFrame(stx, addr, declared, payload, ck) ==
    LET body == <<stx, addr, declared>> \o payload
        good == XorSeq(body)
    IN  Append(body, IF ck = "ok" THEN good
                     ELSE IF ck = "bad" THEN BitXor(good, 1)
                     ELSE VMC96_MESSAGE_STX)

(* all sequences over vals of length lo..hi                                *)
SeqsOf(vals, lo, hi) == UNION {[1 .. n -> vals] : n \in lo .. hi}

(* a payload of 251 bytes, which makes a frame of 255: first byte c, last  *)
(* byte d, zeros between                                                   *)
LongPayload(c, d) ==
    [k \in 1 .. (VMC96_MESSAGE_MAX_LEN - 4) |->
       IF k = 1 THEN c ELSE IF k = VMC96_MESSAGE_MAX_LEN - 4 THEN d ELSE 0]

(* the frames that answer a message sent to address a: every combination   *)
(* of a good or bad start byte, source, declared length and last byte      *)
FramesFor(a, payloads, cks) ==
    { DeviceFrame(stx, addr, declared, p, ck) :
        stx \in {VMC96_MESSAGE_STX, 0},
        addr \in {a, U8(a + 1)},
        declared \in {0, 1, 2, 3, 255},
        p \in payloads,
        ck \in cks }
    \cup
    { DeviceFrame(stx, addr, U8(Len(p) + 4 + more), p, ck) :
        stx \in {VMC96_MESSAGE_STX, 0},
        addr \in {a, U8(a + 1)},
        more \in {0, 1},
        p \in payloads,
        ck \in cks }

(* the first n bytes of each frame: a short read                           *)
Truncated(frames, lens) == { SubSeq(f, 1, n) : f \in frames, n \in lens }

UnitPayVals == {VMC96_COMMAND_MOTOR_STATUS_REQUEST, 128}

UnitFrames(a) ==
    LET full == FramesFor(a, SeqsOf(UnitPayVals, 1, MaxUnitPayload), {"ok", "bad"})
    IN  full \cup Truncated(full, 0 .. 4)
        \cup FramesFor(a, {LongPayload(VMC96_COMMAND_MOTOR_STATUS_REQUEST, d) :
                             d \in {0, 128}}, {"ok", "bad", "stx"})

(* the library may copy overlapping ranges in either direction; the ranges *)
(* of the copies of vmc96_parse_raw_response overlap when more than 251    *)
(* bytes are copied                                                        *)
CopyDirections(a, rx) ==
    IF (a = VMC96_CONTROLLER_GLOBAL_BROADCAST /\ Len(rx) > 251)
       \/ (a \in AddressedControllers /\ Len(rx) >= 5 /\ U8(rx[3] - 4) > 251)
    THEN BOOLEAN ELSE {FALSE}

(* the exchanges in which the transport works and returns a frame of       *)
(* frames, and the three in which a transport call fails                   *)
TransportOk(a, frames) ==
    UNION { { [purge |-> TRUE, write |-> TRUE, read |-> TRUE, rx |-> f, bwd |-> b] :
                b \in CopyDirections(a, f) } : f \in frames }

TransportFails ==
    { [purge |-> FALSE, write |-> TRUE, read |-> TRUE, rx |-> <<>>, bwd |-> FALSE],
      [purge |-> TRUE, write |-> FALSE, read |-> TRUE, rx |-> <<>>, bwd |-> FALSE],
      [purge |-> TRUE, write |-> TRUE, read |-> FALSE, rx |-> <<>>, bwd |-> FALSE] }

(* the caller's output memory before a call: zeroed, or holding the        *)
(* results of earlier calls                                                *)
CleanOut == [version |-> <<0>>, status |-> ZeroStatus, opto |-> <<0, 0, 0, 0>>]
UsedOut ==
    [version |-> <<86, 49, 0>>,
     status |-> [current_ma |-> 250, active_count |-> 1,
                 motors |-> <<[row |-> 0, col |-> 0]>>],
     opto |-> <<1, 0, 0, 0>>]

(* ------------------------------- state -------------------------------- *)
VARIABLES
    char_signed,   \* the build: plain char is signed
    message,       \* vmc96->message
    response,      \* vmc96->response
    pc,            \* "idle": a session in use; "ready"/"done": a single call
    calls,         \* the calls made on the session
    op,            \* the function called last (or about to be called)
    args,          \* its arguments
    tp,            \* what the transport does in that call
    out0,          \* the caller's output memory before the call
    out,           \* the caller's output memory after the call
    ret,           \* the value the call returned
    trace          \* the transport calls the call made, in order

vars == <<char_signed, message, response, pc, calls, op, args, tp, out0, out, ret, trace>>

(* the session and environment a call made now runs in                     *)
Cx(t, o0) ==
    [message |-> message, response |-> response, tp |-> t, sgn |-> char_signed,
     out0 |-> o0]

(* the call o(a) is made with transport t and output memory o0, and r is   *)
(* its result                                                              *)
Invoke(o, a, t, o0, r) ==
    /\ op' = o /\ args' = a /\ tp' = t /\ out0' = o0
    /\ message' = r.message
    /\ response' = r.response
    /\ ret' = r.ret
    /\ trace' = r.trace
    /\ out' = r.out
    /\ UNCHANGED char_signed

(* --------------------- single calls (UnitSpec) ------------------------ *)
(* A function applied once to a new session, for every input of the sets   *)
(* below: vmc96_send_message_ex and each public operation.                 *)
UnitTargets ==
    {VMC96_CONTROLLER_GLOBAL_BROADCAST, VMC96_CONTROLLER_RELAY_1,
     VMC96_CONTROLLER_RELAY_2, VMC96_CONTROLLER_RELAY_BASE_ADDRESS + 2,
     VMC96_CONTROLLER_MOTOR_ARRAY}

UnitCommands == {VMC96_COMMAND_SIMPLE_PING, VMC96_COMMAND_MOTOR_RUN, 255}

(* payloads to send: every short one, and full ones of 250 bytes           *)
UnitData ==
    SeqsOf({0, 17, 255}, 0, MaxUnitData)
    \cup { [k \in 1 .. VMC96_MESSAGE_DATA_MAX_LEN |-> IF k = 1 THEN c ELSE d] :
             c \in {17}, d \in {0, 255} }

(* a correct acknowledgement from address a                                *)
AckFrame(a) == DeviceFrame(VMC96_MESSAGE_STX, a, 5, <<0>>, "ok")

(* correct frames from address a, one for each payload                     *)
GoodFrames(a, payloads) ==
    { DeviceFrame(VMC96_MESSAGE_STX, a, Len(p) + 4, p, "ok") : p \in payloads }

(* a payload of n bytes: first byte c, then fill, last byte last            *)
FullPayload(c, n, fill, last) ==
    [k \in 1 .. n |-> IF k = 1 THEN c ELSE IF k = n THEN last ELSE fill]

(* the longest payloads: 250 bytes fill data[], 251 make a frame of 255    *)
FullLengths == {VMC96_MESSAGE_DATA_MAX_LEN, VMC96_MESSAGE_MAX_LEN - 4}

(* status payloads: every current reading, short ones with and without the *)
(* command echo, one with two motors and the longest                       *)
UnitStatusPayloads ==
    { <<VMC96_COMMAND_MOTOR_STATUS_REQUEST, r>> : r \in Byte }
    \cup SeqsOf({VMC96_COMMAND_MOTOR_STATUS_REQUEST, 17}, 1, MaxUnitPayload)
    \cup { <<VMC96_COMMAND_MOTOR_STATUS_REQUEST, 128, 17, 34>> }
    \cup { FullPayload(VMC96_COMMAND_MOTOR_STATUS_REQUEST, n, 128, 17) : n \in FullLengths }

(* version payloads: "V1.0", short ones and the longest                    *)
UnitVersionPayloads ==
    { <<VMC96_COMMAND_KERNEL_VERSION, 86, 49, 46, 48>> }
    \cup SeqsOf({VMC96_COMMAND_KERNEL_VERSION, 86}, 1, MaxUnitPayload)
    \cup { FullPayload(VMC96_COMMAND_KERNEL_VERSION, n, 86, 49) : n \in FullLengths }

(* replies to a broadcast: nothing, a few bytes, and 250..255 bytes        *)
UnitBroadcastReplies ==
    SeqsOf({0, 53}, 0, MaxUnitPayload)
    \cup { FullPayload(53, n, 7, 9) :
             n \in VMC96_MESSAGE_DATA_MAX_LEN .. VMC96_MESSAGE_MAX_LEN }

(* relay instances: the two of the board, the next one, and the two whose  *)
(* address 0x26 + id is that of another controller                         *)
UnitRelayIds == {0, 1, 2, 10, 218}

RelayAddress(id) == U8(VMC96_CONTROLLER_RELAY_BASE_ADDRESS + id)

UnitPublicCalls ==
    UNION { { [op |-> o, args |-> [id |-> i], tp |-> t] :
                o \in {"vmc96_relay_ping", "vmc96_relay_reset"},
                t \in TransportOk(RelayAddress(i), {AckFrame(RelayAddress(i))}) } :
            i \in UnitRelayIds }
    \cup
    UNION { { [op |-> "vmc96_relay_control", args |-> [id |-> i, state |-> st], tp |-> t] :
                st \in BOOLEAN,
                t \in TransportOk(RelayAddress(i), {AckFrame(RelayAddress(i))}) } :
            i \in UnitRelayIds }
    \cup
    UNION { { [op |-> "vmc96_relay_get_version", args |-> [id |-> i], tp |-> t] :
                t \in TransportOk(RelayAddress(i),
                                  GoodFrames(RelayAddress(i), UnitVersionPayloads)) } :
            i \in UnitRelayIds }
    \cup
    { [op |-> "vmc96_motor_get_version", args |-> [id |-> 0], tp |-> t] :
        t \in TransportOk(VMC96_CONTROLLER_MOTOR_ARRAY,
                          GoodFrames(VMC96_CONTROLLER_MOTOR_ARRAY, UnitVersionPayloads)) }
    \cup
    { [op |-> "vmc96_motor_get_status", args |-> [id |-> 0], tp |-> t] :
        t \in TransportOk(VMC96_CONTROLLER_MOTOR_ARRAY,
                          GoodFrames(VMC96_CONTROLLER_MOTOR_ARRAY, UnitStatusPayloads)) }
    \cup
    { [op |-> "vmc96_global_reset", args |-> [id |-> 0], tp |-> t] :
        t \in TransportOk(VMC96_CONTROLLER_GLOBAL_BROADCAST, UnitBroadcastReplies) }

UnitCalls ==
    UnitPublicCalls
    \cup
    UNION { { [op |-> "vmc96_send_message_ex",
               args |-> [id_cntlr |-> a, cmd |-> VMC96_COMMAND_SIMPLE_PING,
                         data |-> NULL, datalen |-> 0],
               tp |-> t] : t \in TransportOk(a, UnitFrames(a)) } :
            a \in UnitTargets }
    \cup
    UNION { { [op |-> "vmc96_send_message_ex",
               args |-> [id_cntlr |-> a, cmd |-> c, data |-> d, datalen |-> Len(d)],
               tp |-> t] :
                c \in UnitCommands, d \in UnitData,
                t \in TransportFails \cup TransportOk(a, {AckFrame(a)}) } :
            a \in UnitTargets }
    \cup
    { [op |-> "vmc96_motor_run", args |-> [row |-> r, col |-> c], tp |-> t] :
        r \in 0 .. VMC96_MOTOR_ARRAY_ROWS_COUNT,
        c \in 0 .. VMC96_MOTOR_ARRAY_COLUMNS_COUNT,
        t \in TransportOk(VMC96_CONTROLLER_MOTOR_ARRAY,
                          {AckFrame(VMC96_CONTROLLER_MOTOR_ARRAY)}) }

UnitInit ==
    /\ char_signed \in BOOLEAN
    /\ message = ZeroMessage
    /\ response = ZeroMessage
    /\ pc = "ready"
    /\ calls = 0
    /\ \E c \in UnitCalls : op = c.op /\ args = c.args /\ tp = c.tp
    /\ out0 = CleanOut
    /\ out = out0
    /\ ret = "none"
    /\ trace = <<>>

UnitSendMessageEx ==
    /\ pc = "ready"
    /\ op = "vmc96_send_message_ex"
    /\ Invoke(op, args, tp, out0,
              WithOut(vmc96_send_message_ex(Cx(tp, out0), args.id_cntlr, args.cmd,
                                            args.data, args.datalen), out0))
    /\ pc' = "done"
    /\ UNCHANGED calls

UnitMotorRun ==
    /\ pc = "ready"
    /\ op = "vmc96_motor_run"
    /\ Invoke(op, args, tp, out0, vmc96_motor_run(Cx(tp, out0), args.row, args.col))
    /\ pc' = "done"
    /\ UNCHANGED calls

(* the single call o, whose result is r                                    *)
UnitCall(o, r) ==
    /\ pc = "ready"
    /\ op = o
    /\ Invoke(op, args, tp, out0, r)
    /\ pc' = "done"
    /\ UNCHANGED calls

UnitRelayPing == UnitCall("vmc96_relay_ping", vmc96_relay_ping(Cx(tp, out0), args.id))

UnitRelayGetVersion ==
    UnitCall("vmc96_relay_get_version", vmc96_relay_get_version(Cx(tp, out0), args.id))

UnitRelayReset == UnitCall("vmc96_relay_reset", vmc96_relay_reset(Cx(tp, out0), args.id))

UnitRelayControl ==
    UnitCall("vmc96_relay_control", vmc96_relay_control(Cx(tp, out0), args.id, args.state))

UnitMotorGetVersion ==
    UnitCall("vmc96_motor_get_version", vmc96_motor_get_version(Cx(tp, out0)))

UnitMotorGetStatus ==
    UnitCall("vmc96_motor_get_status", vmc96_motor_get_status(Cx(tp, out0)))

UnitGlobalReset == UnitCall("vmc96_global_reset", vmc96_global_reset(Cx(tp, out0)))

UnitNext ==
    \/ UnitSendMessageEx \/ UnitMotorRun
    \/ UnitRelayPing \/ UnitRelayGetVersion \/ UnitRelayReset \/ UnitRelayControl
    \/ UnitMotorGetVersion \/ UnitMotorGetStatus \/ UnitGlobalReset

UnitSpec == UnitInit /\ [][UnitNext]_vars

(* ------------------------- a session (Spec) --------------------------- *)
(* The public operations called in any order on one session, which starts  *)
(* as vmc96_initialize leaves it: both messages zeroed by calloc.  A       *)
(* session makes at most MaxCalls calls.                                   *)
MaxCalls == 2

RelayIds == {0, 2}
MotorRows == {0, VMC96_MOTOR_ARRAY_ROWS_COUNT}
MotorCols == {0, VMC96_MOTOR_ARRAY_COLUMNS_COUNT}

(* payloads of the responses of a session: an acknowledgement, a version,  *)
(* a motor status and a status whose first byte is not the command         *)
AckPayloads == { <<0>> }
VersionPayloads == { <<VMC96_COMMAND_KERNEL_VERSION, 86>> }
StatusPayloads ==
    { <<VMC96_COMMAND_MOTOR_STATUS_REQUEST, 64>>, <<VMC96_COMMAND_RELAY_FUNCTION, 64>> }

(* what the transport does in an exchange with address a: a failing call,  *)
(* an empty read, or a correct frame with one of the payloads              *)
SessionTransport(a, payloads) ==
    TransportFails
    \cup TransportOk(a, { DeviceFrame(VMC96_MESSAGE_STX, a, Len(p) + 4, p, "ok") :
                            p \in payloads } \cup { <<>> })

RelayTransport(id, payloads) ==
    SessionTransport(U8(VMC96_CONTROLLER_RELAY_BASE_ADDRESS + id), payloads)

MotorTransport(payloads) == SessionTransport(VMC96_CONTROLLER_MOTOR_ARRAY, payloads)

(* a transport that is not called                                          *)
QuietTransport ==
    [purge |-> TRUE, write |-> TRUE, read |-> TRUE, rx |-> <<>>, bwd |-> FALSE]

(* the transport of a motor run: nothing to choose when a coordinate is    *)
(* out of the array                                                        *)
RunTransport(row, cols) ==
    IF row < VMC96_MOTOR_ARRAY_ROWS_COUNT
       /\ \A c \in cols : c < VMC96_MOTOR_ARRAY_COLUMNS_COUNT
    THEN MotorTransport(AckPayloads)
    ELSE {QuietTransport}

Init ==
    /\ char_signed \in BOOLEAN
    /\ message = ZeroMessage
    /\ response = ZeroMessage
    /\ pc = "idle"
    /\ calls = 0
    /\ op = "none"
    /\ args = [id |-> 0]
    /\ tp = QuietTransport
    /\ out0 = CleanOut
    /\ out = CleanOut
    /\ ret = "none"
    /\ trace = <<>>

(* one more call on the session: o(a) with transport t, the caller's       *)
(* output memory holding earlier results, and result r                     *)
SessionCall(o, a, t, r) ==
    /\ pc = "idle"
    /\ calls < MaxCalls
    /\ calls' = calls + 1
    /\ Invoke(o, a, t, UsedOut, r)
    /\ UNCHANGED pc

RelayPing ==
    \E id \in RelayIds : \E t \in RelayTransport(id, AckPayloads) :
        SessionCall("vmc96_relay_ping", [id |-> id], t,
                    vmc96_relay_ping(Cx(t, UsedOut), id))

RelayGetVersion ==
    \E id \in RelayIds : \E t \in RelayTransport(id, VersionPayloads) :
        SessionCall("vmc96_relay_get_version", [id |-> id], t,
                    vmc96_relay_get_version(Cx(t, UsedOut), id))

RelayReset ==
    \E id \in RelayIds : \E t \in RelayTransport(id, AckPayloads) :
        SessionCall("vmc96_relay_reset", [id |-> id], t,
                    vmc96_relay_reset(Cx(t, UsedOut), id))

RelayControl ==
    \E id \in RelayIds : \E state \in BOOLEAN : \E t \in RelayTransport(id, AckPayloads) :
        SessionCall("vmc96_relay_control", [id |-> id, state |-> state], t,
                    vmc96_relay_control(Cx(t, UsedOut), id, state))

MotorPing ==
    \E t \in MotorTransport(AckPayloads) :
        SessionCall("vmc96_motor_ping", [id |-> 0], t, vmc96_motor_ping(Cx(t, UsedOut)))

MotorGetVersion ==
    \E t \in MotorTransport(VersionPayloads) :
        SessionCall("vmc96_motor_get_version", [id |-> 0], t,
                    vmc96_motor_get_version(Cx(t, UsedOut)))

MotorReset ==
    \E t \in MotorTransport(AckPayloads) :
        SessionCall("vmc96_motor_reset", [id |-> 0], t, vmc96_motor_reset(Cx(t, UsedOut)))

MotorGetStatus ==
    \E t \in MotorTransport(StatusPayloads) :
        SessionCall("vmc96_motor_get_status", [id |-> 0], t,
                    vmc96_motor_get_status(Cx(t, UsedOut)))

MotorStopAll ==
    \E t \in MotorTransport(AckPayloads) :
        SessionCall("vmc96_motor_stop_all", [id |-> 0], t,
                    vmc96_motor_stop_all(Cx(t, UsedOut)))

MotorRun ==
    \E row \in MotorRows : \E col \in MotorCols : \E t \in RunTransport(row, {col}) :
        SessionCall("vmc96_motor_run", [row |-> row, col |-> col], t,
                    vmc96_motor_run(Cx(t, UsedOut), row, col))

MotorPairRun ==
    \E row \in MotorRows : \E col1 \in MotorCols : \E col2 \in MotorCols :
      \E t \in RunTransport(row, {col1, col2}) :
        SessionCall("vmc96_motor_pair_run", [row |-> row, col1 |-> col1, col2 |-> col2],
                    t, vmc96_motor_pair_run(Cx(t, UsedOut), row, col1, col2))

MotorOptoLineStatus ==
    \E t \in MotorTransport(AckPayloads) :
        SessionCall("vmc96_motor_opto_line_status", [id |-> 0], t,
                    vmc96_motor_opto_line_status(Cx(t, UsedOut)))

GlobalReset ==
    \E t \in SessionTransport(VMC96_CONTROLLER_GLOBAL_BROADCAST, AckPayloads) :
        SessionCall("vmc96_global_reset", [id |-> 0], t,
                    vmc96_global_reset(Cx(t, UsedOut)))

Next ==
    \/ RelayPing \/ RelayGetVersion \/ RelayReset \/ RelayControl
    \/ MotorPing \/ MotorGetVersion \/ MotorReset \/ MotorGetStatus
    \/ MotorStopAll \/ MotorRun \/ MotorPairRun \/ MotorOptoLineStatus
    \/ GlobalReset

Spec == Init /\ [][Next]_vars

(* ============================= properties ============================= *)
(* the first n bytes of array arr, as a sequence                           *)
Prefix(arr, n) == [k \in 1 .. n |-> arr[k - 1]]

(* a single call of vmc96_send_message_ex has returned                     *)
ExDone == pc = "done" /\ op = "vmc96_send_message_ex"

(* C1: the frame vmc96_send_message_ex builds for a payload of n <= 250    *)
(* bytes has raw length n+5 and is 0x35, address, n+5, command, the        *)
(* payload in order, and the XOR of all those bytes; motor-run for row 0,  *)
(* col 0 gives 35 30 06 13 11 01 and ping of relay 0 gives 35 26 05 00 16. *)
C1_FrameLayout ==
    /\ ExDone =>
         LET n == args.datalen
             head == <<VMC96_MESSAGE_STX, args.id_cntlr, n + 5, args.cmd>> \o args.data
         IN  /\ message.raw_length = n + 5
             /\ Prefix(message.raw, n + 4) = head
             /\ message.raw[n + 4] = XorSeq(head)
             /\ XorSeq(Prefix(message.raw, n + 4)) = message.raw[n + 4]
    /\ (pc = "done" /\ op = "vmc96_motor_run" /\ args = [row |-> 0, col |-> 0])
         => Prefix(message.raw, message.raw_length) = <<53, 48, 6, 19, 17, 1>>
    /\ (ExDone /\ args.id_cntlr = VMC96_CONTROLLER_RELAY_1
               /\ args.cmd = VMC96_COMMAND_SIMPLE_PING /\ args.datalen = 0)
         => Prefix(message.raw, message.raw_length) = <<53, 38, 5, 0, 22>>

(* a full payload of 250 bytes was framed, with a checksum above 0x7F      *)
C1_Witness ==
    /\ ExDone
    /\ args.datalen = VMC96_MESSAGE_DATA_MAX_LEN
    /\ message.raw_length = VMC96_MESSAGE_MAX_LEN
    /\ message.raw[VMC96_MESSAGE_MAX_LEN - 1] >= 128

(* a single call of vmc96_send_message_ex to the address of relay 1, of    *)
(* relay 2 or of the motor array has read a response from the transport    *)
(* and returned                                                            *)
ExValidated ==
    ExDone /\ args.id_cntlr \in AddressedControllers /\ tp.purge /\ tp.write /\ tp.read

(* the five checks in their order, on the bytes rx received from address a *)
OrderedChecks(a, rx) ==
    IF Len(rx) < 5 THEN VMC96_ERROR_RESPONSE_INVALID_LENGTH
    ELSE IF rx[1] # VMC96_MESSAGE_STX THEN VMC96_ERROR_RESPONSE_MALFORMED
    ELSE IF rx[2] # a THEN VMC96_ERROR_RESPONSE_INVALID_SOURCE
    ELSE IF rx[3] # Len(rx) THEN VMC96_ERROR_RESPONSE_INVALID_LENGTH
    ELSE IF rx[Len(rx)] # XorSeq(SubSeq(rx, 1, Len(rx) - 1))
         THEN VMC96_ERROR_RESPONSE_INVALID_CHECKSUM
    ELSE VMC96_SUCCESS

(* C2: for a relay or motor-array address the value returned for any       *)
(* received bytes is that of the first failing check in the order length   *)
(* < 5, start byte, source, declared length, checksum, and success only    *)
(* when all five pass.                                                     *)
C2_CheckOrder == ExValidated => ret = OrderedChecks(args.id_cntlr, tp.rx)

(* C3: every response whose first byte is not 0x35 is rejected with        *)
(* Malformed, whatever its other fields and its length (from five bytes    *)
(* on: a shorter response fails the length check, which comes first).      *)
C3_BadStartIsMalformed ==
    (ExValidated /\ Len(tp.rx) >= 5 /\ tp.rx[1] # VMC96_MESSAGE_STX)
        => ret = VMC96_ERROR_RESPONSE_MALFORMED

(* C4: every response whose declared length (byte 2) differs from the      *)
(* number of bytes received is rejected with InvalidLength (when the       *)
(* checks that come before it, length >= 5, start byte and source, pass).  *)
C4_DeclaredLengthIsInvalidLength ==
    (ExValidated /\ Len(tp.rx) >= 5 /\ tp.rx[1] = VMC96_MESSAGE_STX
                 /\ tp.rx[2] = args.id_cntlr /\ tp.rx[3] # Len(tp.rx))
        => ret = VMC96_ERROR_RESPONSE_INVALID_LENGTH

(* C5: for a response that passes the length, start-byte, source and       *)
(* declared-length checks, InvalidChecksum is returned if and only if the  *)
(* last byte differs from the XOR of the preceding bytes, as byte values.  *)
C5_ChecksumIff ==
    (ExValidated /\ Len(tp.rx) >= 5 /\ tp.rx[1] = VMC96_MESSAGE_STX
                 /\ tp.rx[2] = args.id_cntlr /\ tp.rx[3] = Len(tp.rx))
        => (ret = VMC96_ERROR_RESPONSE_INVALID_CHECKSUM
              <=> tp.rx[Len(tp.rx)] # XorSeq(SubSeq(tp.rx, 1, Len(tp.rx) - 1)))

(* the operations that exchange with a relay or with the motor array, and  *)
(* the address each one targets                                            *)
RelayOps ==
    {"vmc96_relay_ping", "vmc96_relay_get_version", "vmc96_relay_reset",
     "vmc96_relay_control"}
MotorOps ==
    {"vmc96_motor_ping", "vmc96_motor_get_version", "vmc96_motor_reset",
     "vmc96_motor_get_status", "vmc96_motor_stop_all", "vmc96_motor_run",
     "vmc96_motor_pair_run", "vmc96_motor_opto_line_status"}
TargetOf(o, a) ==
    IF o \in RelayOps THEN U8(VMC96_CONTROLLER_RELAY_BASE_ADDRESS + a.id)
    ELSE VMC96_CONTROLLER_MOTOR_ARRAY

(* C6: an exchange with a relay instance (any i, at 0x26 + i) or with the  *)
(* motor array returns success only if a response was read and passed all  *)
(* five checks.                                                            *)
C6_SuccessOnlyIfValidated ==
    (calls > 0 /\ op \in RelayOps \cup MotorOps /\ ret = VMC96_SUCCESS)
        => /\ trace = <<"purge", "write", "usleep", "read", "parse">>
           /\ OrderedChecks(TargetOf(op, args), tp.rx) = VMC96_SUCCESS

(* C7: for row < ROWS and col < COLS the motor id vmc96_motor_run stores   *)
(* in one byte, ((row+1) << 4) + (col+1), decodes to the same row and col. *)
C7_MotorIdRoundTrip ==
    (pc = "done" /\ op = "vmc96_motor_run"
       /\ args.row < VMC96_MOTOR_ARRAY_ROWS_COUNT
       /\ args.col < VMC96_MOTOR_ARRAY_COLUMNS_COUNT)
        => /\ message.data_length = 1
           /\ VMC96_GET_MOTOR_ROW(message.data[0]) = args.row
           /\ VMC96_GET_MOTOR_COL(message.data[0]) = args.col

(* the last motor of the array was run: id 0x8C                            *)
C7_Witness ==
    /\ pc = "done" /\ op = "vmc96_motor_run" /\ ret = VMC96_SUCCESS
    /\ args.row = VMC96_MOTOR_ARRAY_ROWS_COUNT - 1
    /\ args.col = VMC96_MOTOR_ARRAY_COLUMNS_COUNT - 1
    /\ message.data[0] = 140
    /\ message.raw[4] = 140

(* a coordinate of the run o(a) is outside the array                       *)
OutOfArray(o, a) ==
    IF o = "vmc96_motor_run"
    THEN a.row >= VMC96_MOTOR_ARRAY_ROWS_COUNT \/ a.col >= VMC96_MOTOR_ARRAY_COLUMNS_COUNT
    ELSE \/ a.row >= VMC96_MOTOR_ARRAY_ROWS_COUNT
         \/ a.col1 >= VMC96_MOTOR_ARRAY_COLUMNS_COUNT
         \/ a.col2 >= VMC96_MOTOR_ARRAY_COLUMNS_COUNT

(* C8: vmc96_motor_run and vmc96_motor_pair_run with a coordinate outside  *)
(* the array return InvalidMotorCoordinates, make no transport call and    *)
(* leave the message and response of the session as they were.             *)
C8_InvalidCoordinatesTouchNothing ==
    [][ (calls' = calls + 1
           /\ op' \in {"vmc96_motor_run", "vmc96_motor_pair_run"}
           /\ OutOfArray(op', args'))
          => /\ ret' = VMC96_ERROR_INVALID_MOTOR_COORDINATES
             /\ trace' = <<>>
             /\ message' = message
             /\ response' = response ]_vars

(* a pair run with only col2 outside the array was refused on a session    *)
(* whose buffers an earlier exchange had filled                            *)
C8_Witness ==
    /\ op = "vmc96_motor_pair_run"
    /\ ret = VMC96_ERROR_INVALID_MOTOR_COORDINATES
    /\ args.row < VMC96_MOTOR_ARRAY_ROWS_COUNT
    /\ args.col1 < VMC96_MOTOR_ARRAY_COLUMNS_COUNT
    /\ args.col2 >= VMC96_MOTOR_ARRAY_COLUMNS_COUNT
    /\ trace = <<>>
    /\ message.raw_length > 0
    /\ response.raw_length > 0

TransportErrors ==
    {VMC96_ERROR_FTDI_PURGE_BUFFERS, VMC96_ERROR_FTDI_WRITE_DATA, VMC96_ERROR_FTDI_READ_DATA}

(* C9: a dispatched command makes its transport calls at most once each,   *)
(* in the order purge, write, (delay), read, validate; a failing purge,    *)
(* write or read returns its own error at once: nothing is written after a *)
(* failed purge, nothing read after a failed write, and after a failed     *)
(* read the response is neither validated nor changed.                     *)
C9_TransportStepsInOrder ==
    [][ (calls' = calls + 1 /\ ret' # VMC96_ERROR_INVALID_MOTOR_COORDINATES)
          => /\ \E n \in 1 .. 5 :
                  trace' = SubSeq(<<"purge", "write", "usleep", "read", "parse">>, 1, n)
             /\ ~tp'.purge
                  => /\ ret' = VMC96_ERROR_FTDI_PURGE_BUFFERS
                     /\ trace' = <<"purge">>
                     /\ response' = response
             /\ (tp'.purge /\ ~tp'.write)
                  => /\ ret' = VMC96_ERROR_FTDI_WRITE_DATA
                     /\ trace' = <<"purge", "write">>
                     /\ response' = response
             /\ (tp'.purge /\ tp'.write /\ ~tp'.read)
                  => /\ ret' = VMC96_ERROR_FTDI_READ_DATA
                     /\ trace' = <<"purge", "write", "usleep", "read">>
                     /\ response' = response
             /\ (tp'.purge /\ tp'.write /\ tp'.read)
                  => /\ ret' \notin TransportErrors
                     /\ trace' = <<"purge", "write", "usleep", "read", "parse">>
                     /\ response'.raw_length = Len(tp'.rx) ]_vars

(* a read failed on a session that holds the response of an earlier        *)
(* exchange                                                                *)
C9_Witness ==
    /\ ret = VMC96_ERROR_FTDI_READ_DATA
    /\ trace = <<"purge", "write", "usleep", "read">>
    /\ response.raw_length > 0
    /\ response.data_length > 0

(* C10: when a version, motor status or opto line query returns an error,  *)
(* the caller's output is as it was before the call.                       *)
C10_NoOutputOnError ==
    (calls > 0 /\ ret # VMC96_SUCCESS) => out = out0

(* the payload of a received frame rx: its bytes at offsets 3 .. L-2, the  *)
(* command echo first                                                      *)
PayloadOf(rx) == SubSeq(rx, 4, Len(rx) - 1)

(* in this step the exchange of command cmd with address addr is made and  *)
(* its response is accepted by the validator                               *)
ExchangeAccepted(addr, cmd) ==
    vmc96_send_message(Cx(tp', out0'), addr, cmd).ret = VMC96_SUCCESS

(* a single call of o returns in this step                                 *)
Returns(o) == pc = "ready" /\ pc' = "done" /\ op' = o

(* the motor position an id byte b stands for                              *)
Position(b) == [row |-> ((b \div 16) % 16) - 1, col |-> (b % 16) - 1]

(* C11: for an accepted motor-status response with payload p of n >= 2     *)
(* bytes and p[0] = 0x10, vmc96_motor_get_status returns success with      *)
(* current_ma = (500 * p[1]) / 255, active_count = n - 2 and motors[i] the *)
(* position of p[i+2], in order; payload 10 80 11 22 gives 250 mA and the  *)
(* motors (0,0), (1,1).                                                    *)
C11_StatusDecoded ==
    [][ (Returns("vmc96_motor_get_status")
           /\ ExchangeAccepted(VMC96_CONTROLLER_MOTOR_ARRAY,
                               VMC96_COMMAND_MOTOR_STATUS_REQUEST)
           /\ Len(PayloadOf(tp'.rx)) >= 2
           /\ PayloadOf(tp'.rx)[1] = VMC96_COMMAND_MOTOR_STATUS_REQUEST)
          => LET p == PayloadOf(tp'.rx)
                 n == Len(p)
             IN  /\ ret' = VMC96_SUCCESS
                 /\ out'.status.current_ma = (500 * p[2]) \div 255
                 /\ out'.status.active_count = n - 2
                 /\ out'.status.motors = [i \in 1 .. (n - 2) |-> Position(p[i + 2])]
                 /\ (p = <<16, 128, 17, 34>>)
                      => /\ out'.status.current_ma = 250
                         /\ out'.status.motors
                              = <<[row |-> 0, col |-> 0], [row |-> 1, col |-> 1]>> ]_vars

(* C12: vmc96_motor_get_status returns success only when the accepted      *)
(* response has a payload of at least 2 bytes whose byte 0 is 0x10, and    *)
(* returns InvalidSource whenever byte 0 of the payload is not 0x10.       *)
C12_StatusNeedsEcho ==
    [][ (Returns("vmc96_motor_get_status")
           /\ ExchangeAccepted(VMC96_CONTROLLER_MOTOR_ARRAY,
                               VMC96_COMMAND_MOTOR_STATUS_REQUEST))
          => LET p == PayloadOf(tp'.rx)
             IN  /\ (ret' = VMC96_SUCCESS)
                      => (Len(p) >= 2 /\ p[1] = VMC96_COMMAND_MOTOR_STATUS_REQUEST)
                 /\ (Len(p) >= 1 /\ p[1] # VMC96_COMMAND_MOTOR_STATUS_REQUEST)
                      => ret' = VMC96_ERROR_RESPONSE_INVALID_SOURCE ]_vars

(* a single version query of relay 1, relay 2 or the motor array returns   *)
(* in this step and its response is accepted by the validator              *)
VersionAccepted ==
    \/ /\ Returns("vmc96_relay_get_version")
       /\ RelayAddress(args'.id) \in AddressedControllers
       /\ ExchangeAccepted(RelayAddress(args'.id), VMC96_COMMAND_KERNEL_VERSION)
    \/ /\ Returns("vmc96_motor_get_version")
       /\ ExchangeAccepted(VMC96_CONTROLLER_MOTOR_ARRAY, VMC96_COMMAND_KERNEL_VERSION)

(* C13: for an accepted version response with payload p of n >= 1 bytes,   *)
(* vmc96_relay_get_version and vmc96_motor_get_version return success with *)
(* the string p[1..n-1] followed by a terminator (the empty string for an  *)
(* empty payload); payload 02 'V' '1' '.' '0' gives "V1.0".                *)
C13_VersionDecoded ==
    [][ VersionAccepted
          => LET p == PayloadOf(tp'.rx)
                 n == Len(p)
             IN  /\ ret' = VMC96_SUCCESS
                 /\ (n >= 1) => /\ Len(out'.version) >= n
                                /\ SubSeq(out'.version, 1, n) = Append(Tail(p), 0)
                 /\ (n = 0) => out'.version[1] = 0
                 /\ (p = <<2, 86, 49, 46, 48>>)
                      => out'.version = <<86, 49, 46, 48, 0>> ]_vars

(* a single call of vmc96_motor_get_status has decoded a current reading   *)
StatusDecoded ==
    /\ pc = "done" /\ op = "vmc96_motor_get_status" /\ ret = VMC96_SUCCESS
    /\ response.data_length >= 2

(* C14: the reading scale(raw) = (500 * raw) / 255 that the status query   *)
(* decodes is monotonic non-decreasing in the raw byte, 0 for 0 and 500    *)
(* for 255, lies in 0..500 and is computed without overflow of int.        *)
C14_CurrentScale ==
    StatusDecoded
        => LET raw == response.data[1]
               ma == out.status.current_ma
           IN  /\ ma = (500 * raw) \div 255
               /\ ma \in 0 .. 500
               /\ 500 * raw <= INT_MAX
               /\ (raw = 0) => (ma = 0)
               /\ (raw = 255) => (ma = 500)
               /\ (raw > 0) => (VMC96_GET_MOTOR_CURRENT_MA(raw - 1) <= ma)
               /\ (raw < 255) => (ma <= VMC96_GET_MOTOR_CURRENT_MA(raw + 1))

(* the largest reading, 0xFF, was decoded as 500 mA                        *)
C14_Witness ==
    /\ StatusDecoded
    /\ response.data[1] = 255
    /\ out.status.current_ma = VMC96_MOTOR_MAX_CURRENT_READING_MA

(* a single exchange with the broadcast address has read a reply and       *)
(* returned                                                                *)
BroadcastDone ==
    /\ pc = "done"
    /\ \/ op = "vmc96_global_reset"
       \/ op = "vmc96_send_message_ex" /\ args.id_cntlr = VMC96_CONTROLLER_GLOBAL_BROADCAST
    /\ tp.purge /\ tp.write /\ tp.read

(* C15: a reply to a broadcast of zero bytes is rejected InvalidLength;    *)
(* any reply of one or more bytes is accepted without any check, and the   *)
(* response payload is then exactly the bytes received, its length the     *)
(* number of bytes received.                                               *)
C15_BroadcastVerbatim ==
    BroadcastDone
        => LET L == Len(tp.rx)
           IN  /\ (L = 0) => (ret = VMC96_ERROR_RESPONSE_INVALID_LENGTH)
               /\ (L >= 1)
                    => /\ ret = VMC96_SUCCESS
                       /\ response.data_length = L
                       /\ L <= VMC96_MESSAGE_DATA_MAX_LEN
                       /\ Prefix(response.data, L) = tp.rx

(* a single exchange with relay 1, relay 2 or the motor array has returned *)
(* success: the validator has accepted the response                        *)
AcceptedDone ==
    /\ pc = "done"
    /\ message.id_controller \in AddressedControllers
    /\ trace = <<"purge", "write", "usleep", "read", "parse">>
    /\ ret = VMC96_SUCCESS

(* C16: when the validator accepts an addressed response of L bytes, the   *)
(* response payload is the received bytes at offsets 3 .. L-2 and the      *)
(* response payload length is the declared length - 4 = L - 4.             *)
C16_PayloadExtracted ==
    AcceptedDone
        => LET L == Len(tp.rx)
           IN  /\ tp.rx[3] = L
               /\ response.data_length = L - 4
               /\ L - 4 <= VMC96_MESSAGE_DATA_MAX_LEN
               /\ Prefix(response.data, L - 4) = PayloadOf(tp.rx)

(* the result of the public operation o with arguments a in session and    *)
(* environment cx                                                          *)
Call(o, a, cx) ==
    CASE o = "vmc96_relay_ping" -> vmc96_relay_ping(cx, a.id)
      [] o = "vmc96_relay_get_version" -> vmc96_relay_get_version(cx, a.id)
      [] o = "vmc96_relay_reset" -> vmc96_relay_reset(cx, a.id)
      [] o = "vmc96_relay_control" -> vmc96_relay_control(cx, a.id, a.state)
      [] o = "vmc96_motor_ping" -> vmc96_motor_ping(cx)
      [] o = "vmc96_motor_get_version" -> vmc96_motor_get_version(cx)
      [] o = "vmc96_motor_reset" -> vmc96_motor_reset(cx)
      [] o = "vmc96_motor_get_status" -> vmc96_motor_get_status(cx)
      [] o = "vmc96_motor_stop_all" -> vmc96_motor_stop_all(cx)
      [] o = "vmc96_motor_run" -> vmc96_motor_run(cx, a.row, a.col)
      [] o = "vmc96_motor_pair_run" -> vmc96_motor_pair_run(cx, a.row, a.col1, a.col2)
      [] o = "vmc96_motor_opto_line_status" -> vmc96_motor_opto_line_status(cx)
      [] o = "vmc96_global_reset" -> vmc96_global_reset(cx)

(* the last call of the session, made instead on a session that has no     *)
(* history: same operation, arguments, transport, build and output memory  *)
OnNewSession ==
    Call(op, args, [message |-> ZeroMessage, response |-> ZeroMessage, tp |-> tp,
                    sgn |-> char_signed, out0 |-> out0])

(* C17: what an operation returns on success (return code and decoded      *)
(* output) depends only on its arguments and on the bytes received in its  *)
(* own exchange, not on the exchanges the session made before: it is what  *)
(* the same call returns on a session without history.                     *)
C17_NoHistory ==
    (calls > 0 /\ ret = VMC96_SUCCESS)
        => /\ OnNewSession.ret = ret
           /\ OnNewSession.out = out

(* a single call is made in this step and reaches the validator            *)
Parses ==
    /\ pc = "ready" /\ pc' = "done"
    /\ trace' = <<"purge", "write", "usleep", "read", "parse">>

(* the response as the read of this step leaves it for the validator       *)
Received == vmc96_send_raw_message(response, tp').response

(* C18: whatever bytes the transport returns, the copy the validator makes *)
(* into the 250-byte response payload stays within it, the payload length  *)
(* declared length - 4 does not wrap below zero, and the response payload  *)
(* length is in 0..250 afterwards, also when the response is rejected.     *)
C18_PayloadWithinBuffer ==
    [][ Parses
          => /\ ParseCopyLength(message', Received) <= VMC96_MESSAGE_DATA_MAX_LEN
             /\ (message'.id_controller \in AddressedControllers
                   /\ Received.raw_length >= 5) => (Received.raw[2] >= 4)
             /\ response'.data_length \in 0 .. VMC96_MESSAGE_DATA_MAX_LEN
             /\ response'.raw = Received.raw ]_vars

(* a single exchange with a relay or the motor array has run to its end    *)
AddressedDone ==
    /\ pc = "done"
    /\ message.id_controller # VMC96_CONTROLLER_GLOBAL_BROADCAST
    /\ trace = <<"purge", "write", "usleep", "read", "parse">>

C20_RelayAddressIsRelay ==
    (pc = "done" /\ op \in RelayOps)
        => /\ message.id_controller = RelayAddress(args.id)
           /\ message.raw[1] = message.id_controller
           /\ message.id_controller # VMC96_CONTROLLER_MOTOR_ARRAY
           /\ message.id_controller # VMC96_CONTROLLER_GLOBAL_BROADCAST
====
